---------------------------- MODULE Spec2Model ----------------------------
(***************************************************************************)
(* Model of the authapi service (src/authapi/authapi.go) and of its users  *)
(* table (src/authapi/migrations/1_create_users.up.sql).                   *)
(*                                                                         *)
(* len (a number of bytes), strings.HasPrefix, strings.Contains and        *)
(* hex.EncodeToString are computed as the code computes them.  The service *)
(* receives up to NReq requests; a handler runs as one step per store      *)
(* round trip (the code before a statement is local to the request), and   *)
(* steps of different requests interleave freely.  Requests carry no       *)
(* identity of their own, so the requests made so far are a bag of records.*)
(*                                                                         *)
(* crypto/rand is a nondeterministic choice among RandReads: two reads may *)
(* return the same bytes.  The store is PostgreSQL: every statement is     *)
(* atomic and the UNIQUE constraints of the migration are enforced.        *)
(* Failures of the database connection are not modelled.                   *)
(***************************************************************************)
EXTENDS Integers, Sequences, FiniteSets, Bags, TLC

\* ------------------------------------------------------------------ bounds

\* Number of requests the service receives in one behaviour.
NReq == 3

\* ------------------------------------------------------- program constants

\* authapi.go:63  bytes := make([]byte, 16)
KeyBytes == 16
\* authapi.go:79  len(params.Password) < 8
MinPasswordLen == 8
\* authapi.go:200 len(apiKey) < 8
MinKeyLen == 8
\* authapi.go:87  bcrypt.DefaultCost
DefaultCost == 10

\* authapi.go:67 and :200  the literal "esk_"
KeyPrefix == "esk_"

\* ------------------------------------------------------------ input values

EmailA == "a@x.com"
EmailB == "b@x.com"
EmailNoAt == "a.x.com"
EmptyStr == ""
Emails == {EmptyStr, EmailNoAt, EmailA, EmailB}
ValidEmails == {EmailA, EmailB}

PwLong1 == "longpass1"
PwLong2 == "other12345"
PwShort == "short77"
\* Seven characters, eight bytes: the second one takes two bytes in UTF-8.
PwMultiByte == "p~sswor"
Passwords == {EmptyStr, PwShort, PwMultiByte, PwLong1, PwLong2}

\* The byte values crypto/rand fills the buffer with (every byte the same).
RandByteValues == {0, 60, 255}
\* Salts bcrypt draws.
Salts == {"s1"}

\* ----------------------------------------------------------- Go's strings

\* The characters of the inputs that UTF-8 encodes in two bytes; every other
\* character of the inputs is ASCII, one byte.  The inputs are written in
\* ASCII: "~" stands for one character outside ASCII, such as U+00E4.
TwoByteRunes == {"~"}

\* len of a Go string: the number of bytes of its UTF-8 encoding, one per
\* character and one more for each two-byte character
len(s) ==
    Len(s) + Cardinality({i \in 1..Len(s) : SubSeq(s, i, i) \in TwoByteRunes})

\* len(s) < n.  A string has at least as many bytes as characters, so the
\* bytes are counted only when the characters are fewer than n.
LenLess(s, n) == Len(s) < n /\ len(s) < n

\* strings.HasPrefix
HasPrefix(s, prefix) ==
    /\ Len(s) >= Len(prefix)
    /\ SubSeq(s, 1, Len(prefix)) = prefix

\* strings.Contains
Contains(s, substr) ==
    \E i \in 1..(Len(s) - Len(substr) + 1) :
        SubSeq(s, i, i + Len(substr) - 1) = substr

HexDigits ==
    <<"0", "1", "2", "3", "4", "5", "6", "7",
      "8", "9", "a", "b", "c", "d", "e", "f">>

RECURSIVE EncodeToString(_)
\* hex.EncodeToString: two lower-case hex digits per byte
EncodeToString(bytes) ==
    IF bytes = <<>> THEN ""
    ELSE HexDigits[(Head(bytes) \div 16) + 1] \o HexDigits[(Head(bytes) % 16) + 1]
         \o EncodeToString(Tail(bytes))

\* ---------------------------------------------------------------- errors

\* errs.Error{Code, Message}
Err(code, message) == [code |-> code, message |-> message]

\* A successful response carrying an API key (SignupResponse, LoginResponse,
\* RegenerateKeyResponse).
KeyResp(key) == [code |-> "ok", api_key |-> key]

NoResp == [code |-> "none"]
\* auth.UserID() of a call with no authenticated identity: ("", false)
NoUID == [ok |-> FALSE, uid |-> EmptyStr]
UID(email) == [ok |-> TRUE, uid |-> email]
NoHash == [alg |-> "none"]

\* ------------------------------------------------------------ crypto/rand

\* rand.Read(bytes): an error, or the buffer filled
RandReads ==
    {[err |-> TRUE, bytes |-> <<>>]}
    \cup {[err |-> FALSE, bytes |-> [i \in 1..KeyBytes |-> b]] : b \in RandByteValues}

\* Mutant of generateAPIKey: the key is the hex string alone, without prefix.
generateAPIKeyNoPrefix(rnd) ==
    IF rnd.err
    THEN [key |-> EmptyStr, err |-> TRUE]
    ELSE [key |-> EncodeToString(rnd.bytes), err |-> FALSE]

\* generateAPIKey (authapi.go:61-68)
generateAPIKey(rnd) ==
    IF rnd.err
    THEN [key |-> EmptyStr, err |-> TRUE]
    ELSE [key |-> KeyPrefix \o EncodeToString(rnd.bytes), err |-> FALSE]

\* Every key the generator can return.
GenKeys == {generateAPIKey(rnd).key : rnd \in {x \in RandReads : ~x.err}}

\* ----------------------------------------------------------------- bcrypt

\* The digest bcrypt derives from a password under a salt and a cost.
BcryptDigest(password, salt, cost) ==
    [alg |-> "bcrypt", cost |-> cost, salt |-> salt, of |-> password]

\* bcrypt.GenerateFromPassword: an error, or the salted hash
GenerateFromPassword(password, cost, outcome) ==
    IF outcome.err
    THEN [hash |-> NoHash, err |-> TRUE]
    ELSE [hash |-> BcryptDigest(password, outcome.salt, cost), err |-> FALSE]

BcryptOutcomes ==
    {[err |-> TRUE, salt |-> "none"]} \cup {[err |-> FALSE, salt |-> s] : s \in Salts}

\* Mutant of CompareHashAndPassword: only the hash's format is looked at.
CompareHashFormatOnly(hash, password) ==
    hash.alg = "bcrypt"

\* bcrypt.CompareHashAndPassword: recompute under the hash's salt and cost
CompareHashAndPassword(hash, password) ==
    hash = BcryptDigest(password, hash.salt, hash.cost)


\* ------------------------------------------------------------------ state

VARIABLES
    users,      \* the rows of table users: [id, email, password, api_key]
    nextId,     \* the next value of the BIGSERIAL sequence of users.id
    reqs,       \* the bag of requests received, each with its position (pc),
                \* parameters, locals and response
    writes      \* history: the writes of api_key applied to the store, in order

vars == <<users, nextId, reqs, writes>>

\* ------------------------------------------------------ the users table

\* SELECT ... FROM users WHERE email = $1
RowsByEmail(u, email) == {row \in u : row.email = email}

\* SELECT ... FROM users WHERE api_key = $1
RowsByKey(u, apiKey) == {row \in u : row.api_key = apiKey}

\* Mutant of InsertUser: the table lacks UNIQUE (email), nothing conflicts on it.
InsertUserNoEmailUnique(u, id, email, password, apiKey) ==
    IF RowsByKey(u, apiKey) # {}
    THEN [users |-> u, rowsAffected |-> 0, err |-> TRUE]
    ELSE [users |-> u \cup {[id |-> id, email |-> email,
                             password |-> password, api_key |-> apiKey]},
          rowsAffected |-> 1, err |-> FALSE]

\* Mutant of InsertUser: the table lacks UNIQUE (api_key).
InsertUserNoKeyUnique(u, id, email, password, apiKey) ==
    IF RowsByEmail(u, email) # {}
    THEN [users |-> u, rowsAffected |-> 0, err |-> FALSE]
    ELSE [users |-> u \cup {[id |-> id, email |-> email,
                             password |-> password, api_key |-> apiKey]},
          rowsAffected |-> 1, err |-> FALSE]

\* Mutant of InsertUser: ON CONFLICT (email) DO UPDATE, an upsert.
InsertUserUpsert(u, id, email, password, apiKey) ==
    IF RowsByKey(u \ RowsByEmail(u, email), apiKey) # {}
    THEN [users |-> u, rowsAffected |-> 0, err |-> TRUE]
    ELSE IF RowsByEmail(u, email) # {}
    THEN [users |-> (u \ RowsByEmail(u, email))
                    \cup {[row EXCEPT !.password = password, !.api_key = apiKey] :
                             row \in RowsByEmail(u, email)},
          rowsAffected |-> 1, err |-> FALSE]
    ELSE [users |-> u \cup {[id |-> id, email |-> email,
                             password |-> password, api_key |-> apiKey]},
          rowsAffected |-> 1, err |-> FALSE]

\* Mutant of InsertUser: ON CONFLICT DO NOTHING without a target, a conflict
\* on api_key is absorbed like one on email.
InsertUserAnyConflict(u, id, email, password, apiKey) ==
    IF RowsByEmail(u, email) # {} \/ RowsByKey(u, apiKey) # {}
    THEN [users |-> u, rowsAffected |-> 0, err |-> FALSE]
    ELSE [users |-> u \cup {[id |-> id, email |-> email,
                             password |-> password, api_key |-> apiKey]},
          rowsAffected |-> 1, err |-> FALSE]

\* INSERT INTO users (email, password, api_key) VALUES ($1, $2, $3)
\* ON CONFLICT (email) DO NOTHING, under UNIQUE (email) and UNIQUE (api_key):
\* a conflict on email is absorbed, a conflict on api_key alone is an error.
InsertUser(u, id, email, password, apiKey) ==
    IF RowsByEmail(u, email) # {}
    THEN [users |-> u, rowsAffected |-> 0, err |-> FALSE]
    ELSE IF RowsByKey(u, apiKey) # {}
    THEN [users |-> u, rowsAffected |-> 0, err |-> TRUE]
    ELSE [users |-> u \cup {[id |-> id, email |-> email,
                             password |-> password, api_key |-> apiKey]},
          rowsAffected |-> 1, err |-> FALSE]

\* Mutant of UpdateKey: the WHERE clause compares the wrong column and
\* matches no row.
UpdateKeyMatchesNothing(u, newKey, email) ==
    [users |-> u, rowsAffected |-> 0, err |-> FALSE]

\* Mutant of UpdateKey: the table lacks UNIQUE (api_key).
UpdateKeyNoKeyUnique(u, newKey, email) ==
    [users |-> (u \ RowsByEmail(u, email))
               \cup {[row EXCEPT !.api_key = newKey] : row \in RowsByEmail(u, email)},
     rowsAffected |-> Cardinality(RowsByEmail(u, email)), err |-> FALSE]

\* Mutant of UpdateKey: the UPDATE has no WHERE clause, every row is updated.
UpdateKeyNoWhere(u, newKey, email) ==
    IF Cardinality(u) > 1
    THEN [users |-> u, rowsAffected |-> 0, err |-> TRUE]
    ELSE [users |-> {[row EXCEPT !.api_key = newKey] : row \in u},
          rowsAffected |-> Cardinality(u), err |-> FALSE]

\* UPDATE users SET api_key = $1 WHERE email = $2, under UNIQUE (api_key):
\* the statement fails, changing nothing, when a row it does not update
\* holds the new key or when it would give the key to two rows.
UpdateKey(u, newKey, email) ==
    LET hit == RowsByEmail(u, email)
        rest == u \ hit
    IN
    IF (hit # {} /\ RowsByKey(rest, newKey) # {}) \/ Cardinality(hit) > 1
    THEN [users |-> u, rowsAffected |-> 0, err |-> TRUE]
    ELSE [users |-> rest \cup {[row EXCEPT !.api_key = newKey] : row \in hit},
          rowsAffected |-> Cardinality(hit), err |-> FALSE]

\* ---------------------------------------------------------------- handlers

\* Mutant of Login: a wrong password has a message of its own.
LoginDistinctMessages(u, email, password) ==
    IF email = EmptyStr \/ password = EmptyStr
    THEN Err("invalid_argument", "email and password required")
    ELSE IF RowsByEmail(u, email) = {}
    THEN Err("unauthenticated", "invalid credentials")
    ELSE LET user == CHOOSE row \in RowsByEmail(u, email) : TRUE
         IN  IF ~CompareHashAndPassword(user.password, password)
             THEN Err("unauthenticated", "wrong password")
             ELSE KeyResp(user.api_key)

\* Mutant of Login: the result of the comparison is not looked at.
LoginSkipsCompare(u, email, password) ==
    IF email = EmptyStr \/ password = EmptyStr
    THEN Err("invalid_argument", "email and password required")
    ELSE IF RowsByEmail(u, email) = {}
    THEN Err("unauthenticated", "invalid credentials")
    ELSE KeyResp((CHOOSE row \in RowsByEmail(u, email) : TRUE).api_key)

\* Login (authapi.go:133-162): one SELECT by email, then the bcrypt comparison
Login(u, email, password) ==
    IF email = EmptyStr \/ password = EmptyStr
    THEN Err("invalid_argument", "email and password required")
    ELSE IF RowsByEmail(u, email) = {}
    THEN Err("unauthenticated", "invalid credentials")
    ELSE LET user == CHOOSE row \in RowsByEmail(u, email) : TRUE
         IN  IF ~CompareHashAndPassword(user.password, password)
             THEN Err("unauthenticated", "invalid credentials")
             ELSE KeyResp(user.api_key)

\* Mutant of AuthHandler: the identity returned is the row's key, not its email.
AuthHandlerReturnsKey(u, apiKey) ==
    IF ~HasPrefix(apiKey, KeyPrefix) \/ LenLess(apiKey, MinKeyLen)
    THEN [uid |-> NoUID,
          err |-> Err("unauthenticated", "invalid API key format; must start with 'esk_'")]
    ELSE IF RowsByKey(u, apiKey) = {}
    THEN [uid |-> NoUID, err |-> Err("unauthenticated", "invalid API key")]
    ELSE LET user == CHOOSE row \in RowsByKey(u, apiKey) : TRUE
         IN  [uid |-> UID(user.api_key), err |-> NoResp]

\* Mutant of AuthHandler: the SELECT has no WHERE clause, any row answers.
AuthHandlerAnyRow(u, apiKey) ==
    IF ~HasPrefix(apiKey, KeyPrefix) \/ LenLess(apiKey, MinKeyLen)
    THEN [uid |-> NoUID,
          err |-> Err("unauthenticated", "invalid API key format; must start with 'esk_'")]
    ELSE IF u = {}
    THEN [uid |-> NoUID, err |-> Err("unauthenticated", "invalid API key")]
    ELSE LET user == CHOOSE row \in u : TRUE
         IN  [uid |-> UID(user.email), err |-> NoResp]

\* Mutant of AuthHandler: the SELECT runs first, the format check after it.
AuthHandlerLookupFirst(u, apiKey) ==
    IF RowsByKey(u, apiKey) # {}
    THEN LET user == CHOOSE row \in RowsByKey(u, apiKey) : TRUE
         IN  [uid |-> UID(user.email), err |-> NoResp]
    ELSE IF ~HasPrefix(apiKey, KeyPrefix) \/ LenLess(apiKey, MinKeyLen)
    THEN [uid |-> NoUID,
          err |-> Err("unauthenticated", "invalid API key format; must start with 'esk_'")]
    ELSE [uid |-> NoUID, err |-> Err("unauthenticated", "invalid API key")]

\* AuthHandler (authapi.go:198-223): the format check, then one SELECT by key
AuthHandler(u, apiKey) ==
    IF ~HasPrefix(apiKey, KeyPrefix) \/ LenLess(apiKey, MinKeyLen)
    THEN [uid |-> NoUID,
          err |-> Err("unauthenticated", "invalid API key format; must start with 'esk_'")]
    ELSE IF RowsByKey(u, apiKey) = {}
    THEN [uid |-> NoUID, err |-> Err("unauthenticated", "invalid API key")]
    ELSE LET user == CHOOSE row \in RowsByKey(u, apiKey) : TRUE
         IN  [uid |-> UID(user.email), err |-> NoResp]

\* --------------------------------------------------------------- requests

\* A request as it arrives: pc is "insert" (Signup before its INSERT),
\* "handler" (an auth endpoint before its handler), "update" (RegenerateKey
\* before its UPDATE) or "done"; old is history, the key an UPDATE replaced.
Request(op, email, password, token) ==
    [op |-> op, email |-> email, password |-> password, token |-> token,
     uid |-> NoUID, hashedPw |-> NoHash, apiKey |-> EmptyStr, old |-> EmptyStr,
     pc |-> "done", resp |-> NoResp]

\* The request ends with the response or error rsp.
Return(rq, rsp) == [rq EXCEPT !.pc = "done", !.resp = rsp]

Received == BagToSet(reqs)

\* A new request arrives and runs up to its first store statement.
Arrive(rq) ==
    /\ BagCardinality(reqs) < NReq
    /\ reqs' = reqs (+) SetToBag({rq})

\* A request in flight takes its next step.
Step(rq, next) ==
    reqs' = (reqs (-) SetToBag({rq})) (+) SetToBag({next})

\* ------------------------------------------------------------------- Init

\* The state after the migration has run: an empty table, no request yet.
Init ==
    /\ users = {}
    /\ nextId = 1
    /\ reqs = EmptyBag
    /\ writes = <<>>

\* ----------------------------------------------------------------- Signup

\* Mutant of SignupCall: the error of generateAPIKey is not looked at, the
\* INSERT follows with the key it returned.
SignupCallIgnoresKeyError(params, bc, rnd) ==
    LET rq == Request("Signup", params.email, params.password, EmptyStr)
        hashed == GenerateFromPassword(params.password, DefaultCost, bc)
        gen == generateAPIKey(rnd)
    IN  /\ Arrive(
              IF params.email = EmptyStr \/ ~Contains(params.email, "@")
              THEN Return(rq, Err("invalid_argument", "valid email is required"))
              ELSE IF params.password = EmptyStr
                      \/ LenLess(params.password, MinPasswordLen)
              THEN Return(rq, Err("invalid_argument",
                                  "password must be at least 8 characters"))
              ELSE IF hashed.err
              THEN Return(rq, Err("internal", "failed to hash password"))
              ELSE [rq EXCEPT !.pc = "insert", !.hashedPw = hashed.hash,
                              !.apiKey = gen.key])
        /\ UNCHANGED <<users, nextId, writes>>

\* Signup, up to the INSERT (authapi.go:71-104): validation, bcrypt, key
SignupCall(params, bc, rnd) ==
    LET rq == Request("Signup", params.email, params.password, EmptyStr)
        hashed == GenerateFromPassword(params.password, DefaultCost, bc)
        gen == generateAPIKey(rnd)
    IN  /\ Arrive(
              IF params.email = EmptyStr \/ ~Contains(params.email, "@")
              THEN Return(rq, Err("invalid_argument", "valid email is required"))
              ELSE IF params.password = EmptyStr
                      \/ LenLess(params.password, MinPasswordLen)
              THEN Return(rq, Err("invalid_argument",
                                  "password must be at least 8 characters"))
              ELSE IF hashed.err
              THEN Return(rq, Err("internal", "failed to hash password"))
              ELSE IF gen.err
              THEN Return(rq, Err("internal", "failed to generate API key"))
              ELSE [rq EXCEPT !.pc = "insert", !.hashedPw = hashed.hash,
                              !.apiKey = gen.key])
        /\ UNCHANGED <<users, nextId, writes>>

\* Signup, the INSERT and the response (authapi.go:106-129)
SignupExec(rq) ==
    /\ rq.pc = "insert"
    /\ LET result == InsertUser(users, nextId, rq.email, rq.hashedPw, rq.apiKey)
       IN  /\ users' = result.users
           /\ nextId' = nextId + 1
           /\ IF result.err
              THEN /\ Step(rq, Return(rq, Err("internal",
                                  "failed to create user: unique_violation")))
                   /\ UNCHANGED writes
              ELSE IF result.rowsAffected = 0
              THEN /\ Step(rq, Return(rq, Err("already_exists",
                                              "email already registered")))
                   /\ UNCHANGED writes
              ELSE /\ Step(rq, Return(rq, KeyResp(rq.apiKey)))
                   /\ writes' = Append(writes,
                         [email |-> rq.email, old |-> EmptyStr, new |-> rq.apiKey])

\* ------------------------------------------------------------------ Login

\* Mutant of LoginCall: a successful Login also installs a new key.
LoginCallRotates(params) ==
    LET rsp == Login(users, params.email, params.password)
        newKey == generateAPIKey(CHOOSE rnd \in RandReads : ~rnd.err).key
    IN  /\ Arrive(Return(Request("Login", params.email, params.password, EmptyStr),
                         rsp))
        /\ users' = IF rsp.code = "ok" /\ RowsByKey(users, newKey) = {}
                    THEN UpdateKey(users, newKey, params.email).users
                    ELSE users
        /\ UNCHANGED <<nextId, writes>>

\* Login as a request (authapi.go:133-162)
LoginCall(params) ==
    /\ Arrive(Return(Request("Login", params.email, params.password, EmptyStr),
                     Login(users, params.email, params.password)))
    /\ UNCHANGED <<users, nextId, writes>>

\* ---------------------------------------------------------- RegenerateKey

\* A request to /regenerate-key with a bearer token: the auth handler runs
\* first (authapi.go:197-223) and, when it accepts, its identity is what
\* auth.UserID() returns in the endpoint.
AuthCall(token) ==
    LET rq == Request("RegenerateKey", EmptyStr, EmptyStr, token)
        a == AuthHandler(users, token)
    IN  /\ Arrive(IF a.err # NoResp
                  THEN Return(rq, a.err)
                  ELSE [rq EXCEPT !.pc = "handler", !.uid = a.uid])
        /\ UNCHANGED <<users, nextId, writes>>

\* A call of RegenerateKey from inside the application (another endpoint, a
\* test): auth.UserID() returns what the caller's context carries, any
\* identity or none (authapi.go:166).
ContextCall(id) ==
    /\ Arrive([Request("RegenerateKey", EmptyStr, EmptyStr, EmptyStr)
                  EXCEPT !.pc = "handler", !.uid = id])
    /\ UNCHANGED <<users, nextId, writes>>

\* Mutant of RegenerateKeyCall: ok of auth.UserID() is not looked at.
RegenerateKeyCallIgnoresOk(rq, rnd) ==
    /\ rq.pc = "handler"
    /\ LET gen == generateAPIKey(rnd)
       IN  Step(rq,
                IF gen.err
                THEN Return(rq, Err("internal", "failed to generate new key"))
                ELSE [rq EXCEPT !.pc = "update", !.apiKey = gen.key])
    /\ UNCHANGED <<users, nextId, writes>>

\* RegenerateKey, up to the UPDATE (authapi.go:165-180)
RegenerateKeyCall(rq, rnd) ==
    /\ rq.pc = "handler"
    /\ LET gen == generateAPIKey(rnd)
       IN  Step(rq,
                IF ~rq.uid.ok
                THEN Return(rq, Err("unauthenticated", "user not authenticated"))
                ELSE IF gen.err
                THEN Return(rq, Err("internal", "failed to generate new key"))
                ELSE [rq EXCEPT !.pc = "update", !.apiKey = gen.key])
    /\ UNCHANGED <<users, nextId, writes>>

\* Mutant of RegenerateKeyExec: the UPDATE also requires the presented key to
\* be the stored one (WHERE email = $2 AND api_key = the bearer token).
RegenerateKeyExecChecksToken(rq) ==
    /\ rq.pc = "update"
    /\ LET before == {row \in RowsByEmail(users, rq.uid.uid) :
                          rq.token = EmptyStr \/ row.api_key = rq.token}
           result == IF before = {}
                     THEN [users |-> users, rowsAffected |-> 0, err |-> FALSE]
                     ELSE UpdateKey(users, rq.apiKey, rq.uid.uid)
           old == IF result.err \/ before = {} THEN EmptyStr
                  ELSE (CHOOSE row \in before : TRUE).api_key
       IN  /\ users' = result.users
           /\ IF result.err
              THEN /\ Step(rq, Return(rq, Err("internal", "failed to update key")))
                   /\ UNCHANGED writes
              ELSE /\ Step(rq, Return([rq EXCEPT !.old = old],
                                      [code |-> "ok", new_api_key |-> rq.apiKey]))
                   /\ writes' =
                        IF before = {} THEN writes
                        ELSE Append(writes,
                               [email |-> rq.uid.uid, old |-> old, new |-> rq.apiKey])
    /\ UNCHANGED nextId

\* RegenerateKey, the UPDATE and the response (authapi.go:182-194): the
\* statement's result is discarded, only its error is looked at.
RegenerateKeyExec(rq) ==
    /\ rq.pc = "update"
    /\ LET result == UpdateKey(users, rq.apiKey, rq.uid.uid)
           before == RowsByEmail(users, rq.uid.uid)
           old == IF result.err \/ before = {} THEN EmptyStr
                  ELSE (CHOOSE row \in before : TRUE).api_key
       IN  /\ users' = result.users
           /\ IF result.err
              THEN /\ Step(rq, Return(rq, Err("internal", "failed to update key")))
                   /\ UNCHANGED writes
              ELSE /\ Step(rq, Return([rq EXCEPT !.old = old],
                                      [code |-> "ok", new_api_key |-> rq.apiKey]))
                   /\ writes' =
                        IF before = {} THEN writes
                        ELSE Append(writes,
                               [email |-> rq.uid.uid, old |-> old, new |-> rq.apiKey])
    /\ UNCHANGED nextId

\* ------------------------------------------------------------------- Next

\* The parameters Signup is called with: each validation failure, and two
\* accounts' worth of valid ones, one of them with a password of seven
\* characters in eight bytes.
SignupParams ==
    {[email |-> EmptyStr, password |-> PwLong1],
     [email |-> EmailNoAt, password |-> PwLong1],
     [email |-> EmailA, password |-> PwShort],
     [email |-> EmailA, password |-> PwLong1],
     [email |-> EmailA, password |-> PwLong2],
     [email |-> EmailB, password |-> PwMultiByte]}

\* The parameters Login is called with.
LoginParams ==
    {[email |-> EmptyStr, password |-> PwLong1],
     [email |-> EmailA, password |-> EmptyStr],
     [email |-> EmailA, password |-> PwLong1],
     [email |-> EmailA, password |-> PwLong2]}

\* The bearer tokens presented: every key the generator can return, a token
\* without the prefix, a token shorter than MinKeyLen and a token of seven
\* characters in eight bytes.
TokenNoPrefix == "xsk_0000"
TokenShort == "esk_0"
TokenMultiByte == "esk_~00"
Tokens == GenKeys \cup {TokenNoPrefix, TokenShort, TokenMultiByte}

\* The identities a caller's context carries.
Identities == {NoUID, UID(EmailA), UID(EmailB)}

Next ==
    \/ \E params \in SignupParams, bc \in BcryptOutcomes, rnd \in RandReads :
            SignupCall(params, bc, rnd)
    \/ \E rq \in Received : SignupExec(rq)
    \/ \E params \in LoginParams : LoginCall(params)
    \/ \E token \in Tokens : AuthCall(token)
    \/ \E id \in Identities : ContextCall(id)
    \/ \E rq \in Received, rnd \in RandReads : RegenerateKeyCall(rq, rnd)
    \/ \E rq \in Received : RegenerateKeyExec(rq)

Spec == Init /\ [][Next]_vars

\* ------------------------------------------------- what the claims speak of

\* Verify of the spec: the auth handler against the store as it is now.
Verify(token) == AuthHandler(users, token)

VerifyFails(token) == Verify(token).err.code = "unauthenticated"

StoredKeys == {row.api_key : row \in users}

\* How many of the requests received are in the set S.
NumOf(S) == BagCardinality([rq \in S \cap Received |-> CopiesIn(rq, reqs)])

\* Signup requests for email that have executed their INSERT.
SignupsDone(email) ==
    {rq \in Received : /\ rq.op = "Signup" /\ rq.email = email /\ rq.pc = "done"
                       /\ rq.apiKey # EmptyStr}

SignupsPending(email) ==
    {rq \in Received : rq.op = "Signup" /\ rq.email = email /\ rq.pc = "insert"}

\* RegenerateKey requests for the identity email that have executed their UPDATE.
RotatesDone(email) ==
    {rq \in Received : /\ rq.op = "RegenerateKey" /\ rq.uid = UID(email)
                       /\ rq.pc = "done" /\ rq.apiKey # EmptyStr}

RotatesPending(email) ==
    {rq \in Received : /\ rq.op = "RegenerateKey" /\ rq.uid = UID(email)
                       /\ rq.pc \in {"handler", "update"}}

Succeeded(S) == {rq \in S : rq.resp.code = "ok"}

\* The places in the history where email's key was written.
WritesOf(email) == {i \in DOMAIN writes : writes[i].email = email}

LastWriteOf(email) ==
    CHOOSE i \in WritesOf(email) : \A j \in WritesOf(email) : j <= i

\* The key was written for email by an UPDATE, i.e. the account was rotated.
Rotated(email) == \E i \in WritesOf(email) : writes[i].old # EmptyStr

\* ---------------------------------------------------------------------- C1

LatestRotation(rq, email) ==
    /\ rq \in Succeeded(RotatesDone(email))
    /\ rq.old # EmptyStr
    /\ WritesOf(email) # {}
    /\ writes[LastWriteOf(email)] =
           [email |-> email, old |-> rq.old, new |-> rq.apiKey]

Supersedes(i) == writes[i].old # EmptyStr /\ writes[i].old # writes[i].new

C4_RotateOfNoAccountIsInternal ==
    \A email \in ValidEmails : \A rq \in RotatesDone(email) :
        RowsByEmail(users, email) = {} => rq.resp.code = "internal"

\* ---------------------------------------------------------------------- C5

\* The tokens Verify accepts for the account of email.
KeysResolvingTo(email) ==
    {k \in Tokens \cup StoredKeys : Verify(k).uid = UID(email)}

\* C5: in every state, also between the steps of requests in flight, every
\* account has exactly one key that resolves to it, and no key value and no
\* email is held by two rows.
C5_OneKeyPerAccount ==
    /\ \A row \in users : KeysResolvingTo(row.email) = {row.api_key}
    /\ \A r1, r2 \in users :
           (r1.api_key = r2.api_key \/ r1.email = r2.email) => r1 = r2

\* Two accounts exist while a RegenerateKey is about to write a key that is
\* already in the store.
C5_Witness ==
    /\ Cardinality(users) = 2
    /\ \E rq \in Received : rq.pc = "update" /\ rq.apiKey \in StoredKeys

\* ---------------------------------------------------------------------- C6

\* The RegenerateKey requests for email have all executed their UPDATE, each
\* on the account's row.
RotationsFinished(email) ==
    /\ RotatesDone(email) # {}
    /\ RotatesPending(email) = {}
    /\ \A rq \in RotatesDone(email) :
           rq.resp.code = "internal" \/ rq.old # EmptyStr

AlreadyExists == Err("already_exists", "email already registered")

\* This step is the INSERT of the Signup request rq.
IsSignupExecOf(rq) ==
    /\ rq.op = "Signup" /\ rq.pc = "insert"
    /\ nextId' # nextId
    /\ CopiesIn(rq, reqs') < CopiesIn(rq, reqs)

\* C7: the INSERT of a Signup whose email already has a row leaves the table
\* as it is (no row added, the existing row's id, email, password and api_key
\* unchanged) and the request returns AlreadyExists.
C7_DuplicateSignupChangesNothing ==
    [][\A rq \in Received :
          (IsSignupExecOf(rq) /\ RowsByEmail(users, rq.email) # {}) =>
              /\ users' = users
              /\ CopiesIn(Return(rq, AlreadyExists), reqs')
                     = CopiesIn(Return(rq, AlreadyExists), reqs) + 1]_vars

\* A Signup with another password and a key no account holds was refused for
\* an email that has an account.
C7_Witness ==
    \E rq \in SignupsDone(EmailA), row \in RowsByEmail(users, EmailA) :
        /\ rq.resp = AlreadyExists
        /\ ~CompareHashAndPassword(row.password, rq.password)
        /\ rq.apiKey \notin StoredKeys

\* ---------------------------------------------------------------------- C8

NonEmpty(S) == S \ {EmptyStr}

C9_LoginFailuresIndistinguishable ==
    \A e1, e2 \in NonEmpty(Emails) :
        (RowsByEmail(users, e1) = {} /\ RowsByEmail(users, e2) # {}) =>
            \A p1, p2 \in NonEmpty(Passwords) :
                Login(users, e2, p2).code # "ok" =>
                    /\ Login(users, e1, p1) = Login(users, e2, p2)
                    /\ Login(users, e1, p1).code = "unauthenticated"

\* One email has an account and another has none; both failures were returned.
C9_Witness ==
    /\ RowsByEmail(users, EmailA) # {}
    /\ RowsByEmail(users, EmailB) = {}
    /\ \E rq \in Received :
           /\ rq.op = "Login" /\ rq.email = EmailA
           /\ rq.resp.code = "unauthenticated"

\* --------------------------------------------------------------------- C10

\* The API key a response carries, "" when it carries none.
RespKey(rq) ==
    IF rq.resp.code # "ok" THEN EmptyStr
    ELSE IF rq.op = "RegenerateKey" THEN rq.resp.new_api_key
    ELSE rq.resp.api_key

\* The key has been in the store.
EverStored(key) == \E i \in DOMAIN writes : writes[i].new = key

\* The requests whose response shows the key that the history's write i put
\* into the store: the Signup that inserted the row, or a RegenerateKey that
\* updated it.
Showing(i) ==
    {rq \in Received :
        /\ RespKey(rq) = writes[i].new
        /\ \/ /\ rq.op = "Signup"
              /\ writes[i].old = EmptyStr
              /\ writes[i].email = rq.email
           \/ /\ rq.op = "RegenerateKey"
              /\ rq.old # EmptyStr
              /\ writes[i].old = rq.old
              /\ writes[i].email = rq.uid.uid}

\* C10 (as stated): a key that has been in the store is carried only by the
\* response of the Signup that created it or of the Rotate that installed it,
\* and by no other response.
C10_KeyOnlyInSignupAndRotateResponses ==
    \A rq \in Received :
        (RespKey(rq) # EmptyStr /\ EverStored(RespKey(rq))) =>
            /\ rq.op \in {"Signup", "RegenerateKey"}
            /\ rq.apiKey = RespKey(rq)

\* C10 (amended): a response carries an API key only if it is the response
\* of a successful Signup or of a Rotate, carrying the key that request itself
\* generated, or the response of a successful Login, carrying a key stored for
\* the account logged into (its current key); no error response, refused
\* Signup, failed Login or failed Verify carries a key.  Every key written to
\* the store is returned by the Signup or Rotate that wrote it, exactly once.
C10_KeyInSignupRotateAndLoginResponses ==
    /\ \A rq \in Received :
           RespKey(rq) # EmptyStr =>
               \/ /\ rq.op \in {"Signup", "RegenerateKey"}
                  /\ rq.apiKey = RespKey(rq)
               \/ /\ rq.op = "Login"
                  /\ \E i \in WritesOf(rq.email) : writes[i].new = RespKey(rq)
                  /\ \E sg \in Succeeded(SignupsDone(rq.email)) :
                         sg.password = rq.password
    /\ \A rq \in Received :
           (rq.op = "Signup" /\ RespKey(rq) # EmptyStr) =>
               \E i \in WritesOf(rq.email) :
                   writes[i].new = rq.apiKey /\ writes[i].old = EmptyStr
    /\ \A i \in DOMAIN writes : Showing(i) # {}
    /\ NumOf({rq \in Received : \E i \in DOMAIN writes : rq \in Showing(i)})
           = Len(writes)

\* A Login has returned the key a rotation installed.
C10_Witness ==
    \E rq \in Received, i \in DOMAIN writes :
        /\ rq.op = "Login"
        /\ writes[i].old # EmptyStr
        /\ RespKey(rq) = writes[i].new
        /\ Showing(i) # {}

\* --------------------------------------------------------------------- C11

\* This step is the arrival of the request rq.
IsArrivalOf(rq) == CopiesIn(rq, reqs') > CopiesIn(rq, reqs)

\* C11: a Login step leaves the store as it is (no row added, removed or
\* changed, so every key resolves after it as it did before), and a successful
\* one returns the key stored for the account: the key written last for it,
\* by its Signup when it was never rotated, by its latest rotation otherwise.
C11_LoginReturnsCurrentKey ==
    [][\A rq \in BagToSet(reqs') :
          (rq.op = "Login" /\ IsArrivalOf(rq)) =>
              /\ users' = users /\ nextId' = nextId /\ writes' = writes
              /\ \A k \in Tokens \cup StoredKeys :
                     AuthHandler(users', k) = AuthHandler(users, k)
              /\ rq.resp.code = "ok" =>
                     /\ WritesOf(rq.email) # {}
                     /\ rq.resp = KeyResp(writes[LastWriteOf(rq.email)].new)
                     /\ \E row \in RowsByEmail(users', rq.email) :
                            rq.resp = KeyResp(row.api_key)
                     /\ Verify(rq.resp.api_key)' = [uid |-> UID(rq.email),
                                                    err |-> NoResp]]_vars

\* A Login has returned the key of an account whose key a rotation replaced
\* by another one, and that key still resolves to the account.
C11_Witness ==
    \E rq \in Received :
        /\ rq.op = "Login" /\ rq.resp.code = "ok"
        /\ Rotated(rq.email)
        /\ writes[LastWriteOf(rq.email)].old # rq.resp.api_key
        /\ rq.resp = KeyResp(writes[LastWriteOf(rq.email)].new)
        /\ Verify(rq.resp.api_key).uid = UID(rq.email)

\* --------------------------------------------------------------------- C12

\* The token passes the format check of the auth handler.
PassesFormat(token) == HasPrefix(token, KeyPrefix) /\ ~LenLess(token, MinKeyLen)

\* The tokens presented that pass it, and those that do not.
WellFormedTokens == {token \in Tokens : PassesFormat(token)}
MalformedTokens == Tokens \ WellFormedTokens

InvalidKey == Err("unauthenticated", "invalid API key")

\* C12: for a token that passes the format check, Verify succeeds exactly if
\* a row holds the token as its API key, and then returns that row's email as
\* the identity; when no row holds it, Verify fails with Unauthenticated.  A
\* request the auth handler accepted presented a key written for its identity.
C12_VerifyIffTokenIsStored ==
    /\ \A token \in WellFormedTokens \cup {k \in StoredKeys : PassesFormat(k)} :
               IF RowsByKey(users, token) # {}
               THEN \A row \in RowsByKey(users, token) :
                        Verify(token) = [uid |-> UID(row.email), err |-> NoResp]
               ELSE Verify(token) = [uid |-> NoUID, err |-> InvalidKey]
    /\ \A rq \in Received :
           (rq.op = "RegenerateKey" /\ rq.token # EmptyStr) =>
               IF rq.uid.ok
               THEN \E i \in WritesOf(rq.uid.uid) : writes[i].new = rq.token
               ELSE rq.pc = "done" /\ rq.resp.code = "unauthenticated"

\* Two accounts hold different keys and a third well-formed key is held by
\* none; a request presenting the second account's key was accepted.
C12_Witness ==
    /\ \E ra, rb \in users :
           /\ ra.email = EmailA /\ rb.email = EmailB
           /\ Verify(ra.api_key).uid = UID(EmailA)
           /\ Verify(rb.api_key).uid = UID(EmailB)
           /\ \E rq \in Received : rq.token = rb.api_key /\ rq.uid = UID(EmailB)
    /\ \E token \in GenKeys : Verify(token).err = InvalidKey
    /\ Verify(TokenMultiByte).err = InvalidKey

\* --------------------------------------------------------------------- C13

InvalidFormat ==
    Err("unauthenticated", "invalid API key format; must start with 'esk_'")

\* The store as it is, and the store with one more row that holds the token
\* as its API key.
StoresFor(token) ==
    {users,
     users \cup {[id |-> nextId, email |-> EmailA, password |-> NoHash,
                  api_key |-> token]}}

\* The auth handler answers the token from its format alone: with the format
\* error, whatever the store holds, even a row with the token as its key.
RejectedUnseen(token) ==
    \A u \in StoresFor(token) :
        AuthHandler(u, token) = [uid |-> NoUID, err |-> InvalidFormat]

\* The tokens presented that have the prefix and fewer than MinKeyLen
\* characters, in MinKeyLen bytes or more.
ShortInCharactersOnly == {token \in WellFormedTokens : Len(token) < MinKeyLen}

\* C13 (as stated): a token that does not start with "esk_" or has fewer than
\* 8 characters is rejected with Unauthenticated from its format alone,
\* without a lookup, whatever the store holds.
C13_MalformedByCharactersRejectedUnseen ==
    \A token \in Tokens :
        (~HasPrefix(token, KeyPrefix) \/ Len(token) < MinKeyLen) =>
            RejectedUnseen(token)

\* C13 (amended): a token that does not start with "esk_" or is shorter than
\* 8 bytes is rejected with Unauthenticated from its format alone, without a
\* lookup, whatever the store holds, and the request ends there.  The length
\* is the byte length: a token with the prefix and fewer than 8 characters
\* that takes 8 bytes or more is looked up like any well-formed token.
C13_MalformedByBytesRejectedUnseen ==
    /\ \A token \in MalformedTokens : RejectedUnseen(token)
    /\ \A token \in ShortInCharactersOnly :
           \A u \in StoresFor(token) :
               AuthHandler(u, token).err =
                   IF RowsByKey(u, token) = {} THEN InvalidKey ELSE NoResp
    /\ \A rq \in Received :
           (rq.op = "RegenerateKey" /\ rq.token \in MalformedTokens) =>
               rq = Return(Request("RegenerateKey", EmptyStr, EmptyStr, rq.token),
                           InvalidFormat)

\* With an account in the store, a token without the prefix and a token of
\* fewer than 8 bytes have been presented and rejected for their format.
C13_Witness ==
    /\ users # {}
    /\ \E r1, r2 \in Received :
           /\ r1.token = TokenNoPrefix /\ r1.resp = InvalidFormat
           /\ r2.token = TokenShort /\ r2.resp = InvalidFormat
           /\ Len(r1.token) >= MinKeyLen /\ HasPrefix(r2.token, KeyPrefix)

\* --------------------------------------------------------------------- C14

\* The Signup requests received whose email is empty or has no "@", or whose
\* password has fewer than MinPasswordLen characters.
InvalidSignups ==
    {rq \in Received :
        /\ rq.op = "Signup"
        /\ \/ rq.email = EmptyStr
           \/ ~Contains(rq.email, "@")
           \/ Len(rq.password) < MinPasswordLen}

\* C14 (as stated): a Signup whose email is empty or has no "@", or whose
\* password is shorter than 8 characters, has ended with InvalidInput without
\* hashing, generating or inserting anything: no row carries its email and
\* password.
C14_InvalidSignupHasNoEffect ==
    \A rq \in InvalidSignups :
        /\ rq.pc = "done"
        /\ rq.resp.code = "invalid_argument"
        /\ rq.hashedPw = NoHash /\ rq.apiKey = EmptyStr
        /\ \A row \in RowsByEmail(users, rq.email) :
               ~CompareHashAndPassword(row.password, rq.password)

\* C14 with the length as the code takes it, in bytes: a Signup whose email is
\* empty or has no "@", or whose password is shorter than 8 bytes, has ended
\* with InvalidInput without hashing, generating or inserting anything.
C14_InvalidByBytesHasNoEffect ==
    \A rq \in Received :
        ( /\ rq.op = "Signup"
          /\ \/ rq.email = EmptyStr
             \/ ~Contains(rq.email, "@")
             \/ len(rq.password) < MinPasswordLen ) =>
            /\ rq.pc = "done"
            /\ rq.resp.code = "invalid_argument"
            /\ rq.hashedPw = NoHash /\ rq.apiKey = EmptyStr
            /\ \A row \in RowsByEmail(users, rq.email) :
                   ~CompareHashAndPassword(row.password, rq.password)

\* --------------------------------------------------------------------- C15

HashFailed == Err("internal", "failed to hash password")
KeyFailed == Err("internal", "failed to generate API key")
NewKeyFailed == Err("internal", "failed to generate new key")

\* C15: a Signup in which hashing or key generation fails ends with Internal
\* in the step of the failure, which leaves the store as it is, so the call
\* creates no row; a Signup goes on to its INSERT only with the hash of its
\* password and a generated key, no row lacks either, and an email has a row
\* only if a Signup for it returned success.  A Rotate in which key generation
\* fails ends with Internal in that step, which leaves the store as it is:
\* the stored key of its account is unchanged.
C15_GeneratorFailureChangesNothing ==
    [][/\ \A rq \in BagToSet(reqs') :
              (IsArrivalOf(rq) /\ rq.resp \in {HashFailed, KeyFailed, NewKeyFailed}) =>
                  /\ rq.pc = "done" /\ rq.resp.code = "internal"
                  /\ rq.apiKey = EmptyStr
                  /\ (rq.op = "Signup") = (rq.resp \in {HashFailed, KeyFailed})
                  /\ users' = users /\ nextId' = nextId /\ writes' = writes
                  /\ \A k \in Tokens \cup StoredKeys :
                         AuthHandler(users', k) = AuthHandler(users, k)
       /\ \A rq \in BagToSet(reqs') :
              (rq.op = "Signup" /\ rq.pc = "insert") =>
                  /\ rq.hashedPw = BcryptDigest(rq.password, rq.hashedPw.salt,
                                                DefaultCost)
                  /\ rq.apiKey \in GenKeys
       /\ \A row \in users' :
              /\ row.password.alg = "bcrypt"
              /\ row.api_key \in GenKeys
              /\ Succeeded(SignupsDone(row.email))' # {}]_vars

\* Hashing failed in a Signup for an email, which has no row; key generation
\* failed in a Rotate of an account, whose key is still the one of its Signup.
C15_Witness ==
    /\ \E rq \in Received :
           /\ rq.op = "Signup" /\ rq.resp = HashFailed
           /\ RowsByEmail(users, rq.email) = {}
    /\ \E rq \in Received, sg \in Received, row \in users :
           /\ rq.op = "RegenerateKey" /\ rq.resp = NewKeyFailed
           /\ rq.uid = UID(row.email)
           /\ sg.op = "Signup" /\ sg.email = row.email
           /\ sg.resp = KeyResp(row.api_key)
           /\ Verify(row.api_key).uid = rq.uid

\* --------------------------------------------------------------------- C16

NotAuthenticated == Err("unauthenticated", "user not authenticated")

\* C16: the step of a RegenerateKey whose call carries no identity ends the
\* request with Unauthenticated and leaves the store as it is; a request
\* without identity never holds a generated key and never reaches the UPDATE.
C16_RotateWithoutIdentityIsRefused ==
    [][/\ \A rq \in Received :
              ( /\ rq.op = "RegenerateKey" /\ rq.pc = "handler" /\ ~rq.uid.ok
                /\ CopiesIn(rq, reqs') < CopiesIn(rq, reqs) ) =>
                  /\ CopiesIn(Return(rq, NotAuthenticated), reqs')
                         = CopiesIn(Return(rq, NotAuthenticated), reqs) + 1
                  /\ users' = users /\ nextId' = nextId /\ writes' = writes
                  /\ \A k \in Tokens \cup StoredKeys :
                         AuthHandler(users', k) = AuthHandler(users, k)
       /\ \A rq \in BagToSet(reqs') :
              (rq.op = "RegenerateKey" /\ ~rq.uid.ok) =>
                  /\ rq.apiKey = EmptyStr
                  /\ rq.pc \in {"handler", "done"}
                  /\ rq.pc = "done" => rq.resp.code = "unauthenticated"]_vars

\* With an account in the store, a RegenerateKey called without identity has
\* been refused; the account still has the key of its Signup.
C16_Witness ==
    /\ \E rq \in Received :
           /\ rq.op = "RegenerateKey" /\ rq.token = EmptyStr
           /\ rq.resp = NotAuthenticated
    /\ \E sg \in Received, row \in users :
           /\ sg.op = "Signup" /\ sg.resp = KeyResp(row.api_key)
           /\ Verify(row.api_key).uid = UID(sg.email)

\* --------------------------------------------------------------------- C17

\* C17: in every step every row of the table stays as it is, with one
\* exception: the UPDATE of a RegenerateKey whose identity is the row's email,
\* which returns success, replaces the row's api_key by the key the request
\* generated and leaves its id, email and password and every other row as they
\* are.  No row is ever removed.
C17_OnlyRotateChangesOnlyTheKey ==
    [][\A row \in users :
          \/ row \in users'
          \/ \E rq \in Received :
                /\ rq.op = "RegenerateKey" /\ rq.pc = "update"
                /\ rq.uid = UID(row.email)
                /\ CopiesIn(rq, reqs') < CopiesIn(rq, reqs)
                /\ users' = (users \ {row})
                               \cup {[row EXCEPT !.api_key = rq.apiKey]}
                /\ \E after \in BagToSet(reqs') :
                      /\ IsArrivalOf(after)
                      /\ after.uid = rq.uid /\ after.pc = "done"
                      /\ after.resp = [code |-> "ok", new_api_key |-> rq.apiKey]]_vars

\* Two accounts exist; one has been rotated to another key and still has the
\* password hash of its Signup, the other still has the key of its Signup.
C17_Witness ==
    \E ra, rb \in users, sa, sb \in Received :
        /\ ra.email # rb.email
        /\ sa.op = "Signup" /\ sa.email = ra.email /\ sa.resp.code = "ok"
        /\ sb.op = "Signup" /\ sb.email = rb.email /\ sb.resp.code = "ok"
        /\ ra.api_key # sa.apiKey /\ ra.password = sa.hashedPw
        /\ rb.api_key = sb.apiKey /\ rb.password = sb.hashedPw
        /\ ra.id # rb.id

\* --------------------------------------------------------------------- C18

\* Every key the generator can return has the prefix and the length of the
\* prefix and two hex digits per byte, and passes the format check.
GeneratedKeysAreWellFormed ==
    \A key \in GenKeys :
        /\ HasPrefix(key, KeyPrefix)
        /\ Len(key) = Len(KeyPrefix) + 2 * KeyBytes
        /\ len(key) = Len(key)
        /\ Len(key) >= MinKeyLen
        /\ PassesFormat(key)

\* C18: every key the generator returns starts with "esk_" and has
\* Len("esk_") + 2 * KeyBytes characters, all of one byte, so it passes the
\* format check; every key a request holds, every key written and every key
\* stored is such a key.  Hence Verify never answers a stored key with the
\* format error: the key written last for an account (returned by its Signup,
\* or by its latest rotation) resolves to the account's email.
C18_StoredKeysPassTheFormatCheck ==
    /\ GeneratedKeysAreWellFormed
    /\ \A rq \in Received : rq.apiKey # EmptyStr => rq.apiKey \in GenKeys
    /\ \A i \in DOMAIN writes : writes[i].new \in GenKeys
    /\ \A row \in users :
           /\ row.api_key \in GenKeys
           /\ Verify(row.api_key) = [uid |-> UID(row.email), err |-> NoResp]
    /\ \A email \in ValidEmails :
           /\ WritesOf(email) # {} =>
                  Verify(writes[LastWriteOf(email)].new).uid = UID(email)
           /\ \A rq \in Succeeded(SignupsDone(email)) :
                  ~Rotated(email) => Verify(RespKey(rq)).uid = UID(email)
           /\ \A rq \in Received :
                  LatestRotation(rq, email) => Verify(RespKey(rq)).uid = UID(email)

\* One account holds the key its latest rotation returned, another the key
\* its Signup returned; both keys resolve.
C18_Witness ==
    \E rq \in Received, sg \in Succeeded(SignupsDone(EmailB)) :
        /\ LatestRotation(rq, EmailA)
        /\ RespKey(rq) # rq.old
        /\ Verify(RespKey(rq)).uid = UID(EmailA)
        /\ ~Rotated(EmailB)
        /\ Verify(RespKey(sg)).uid = UID(EmailB)

\* --------------------------------------------------------------------- C19

UpdateFailed == Err("internal", "failed to update key")

\* This step is the UPDATE of the RegenerateKey request rq, on the row of its
\* identity, after the key the request was verified with has been replaced.
IsLateUpdateOf(rq, row) ==
    /\ rq.op = "RegenerateKey" /\ rq.pc = "update"
    /\ rq.token # EmptyStr
    /\ rq.uid = UID(row.email)
    /\ row.api_key # rq.token
    /\ CopiesIn(rq, reqs') < CopiesIn(rq, reqs)

\* The request rq has ended with the response rsp in this step.
EndsWith(rq, rsp) ==
    \E after \in BagToSet(reqs') :
        /\ IsArrivalOf(after)
        /\ after.pc = "done" /\ after.resp = rsp
        /\ after.token = rq.token /\ after.uid = rq.uid /\ after.apiKey = rq.apiKey

CreateFailed == Err("internal", "failed to create user: unique_violation")

\* C20: the INSERT of a Signup for an email without a row, and the UPDATE of
\* a RegenerateKey on the row of its identity, with a key that the row of
\* another account holds, are rejected: the request ends with Internal and no
\* key, and the table and every key's resolution stay as they are.
C20_KeyCollisionIsInternal ==
    [][/\ \A rq \in Received :
              ( /\ IsSignupExecOf(rq)
                /\ RowsByEmail(users, rq.email) = {}
                /\ RowsByKey(users, rq.apiKey) # {} ) =>
                  /\ users' = users /\ writes' = writes
                  /\ CopiesIn(Return(rq, CreateFailed), reqs')
                         = CopiesIn(Return(rq, CreateFailed), reqs) + 1
                  /\ RespKey(Return(rq, CreateFailed)) = EmptyStr
       /\ \A rq \in Received, row \in users :
              ( /\ rq.op = "RegenerateKey" /\ rq.pc = "update"
                /\ CopiesIn(rq, reqs') < CopiesIn(rq, reqs)
                /\ rq.uid = UID(row.email)
                /\ RowsByKey(users \ {row}, rq.apiKey) # {} ) =>
                  /\ users' = users /\ writes' = writes
                  /\ CopiesIn(Return(rq, UpdateFailed), reqs')
                         = CopiesIn(Return(rq, UpdateFailed), reqs) + 1
                  /\ RespKey(Return(rq, UpdateFailed)) = EmptyStr]_vars

\* A RegenerateKey of one account generated the key of the other account and
\* failed with Internal; both accounts still have the keys of their Signups.
C20_Witness ==
    \E rq \in RotatesDone(EmailB), ra \in users, rb \in users :
        /\ ra.email = EmailA /\ rb.email = EmailB
        /\ rq.resp = UpdateFailed
        /\ rq.apiKey = ra.api_key
        /\ rq.token = rb.api_key
        /\ ~Rotated(EmailA) /\ ~Rotated(EmailB)
        /\ Verify(ra.api_key).uid = UID(EmailA)
        /\ Verify(rb.api_key).uid = UID(EmailB)

=============================================================================
